---- MODULE Spec2Model ----
(***************************************************************************)
(* State-machine model of the CollegeScoreCard batch loaders               *)
(* (load_ipeds.py, load_scorecard.py, load_ipeds_aki.py).                  *)
(*                                                                         *)
(* Text values are sequences of one-character strings, so that strip(),    *)
(* slicing, isdigit() and int() are computed character by character.       *)
(* Python's None is the one-element sequence None, whose element is not a  *)
(* character, so it differs from every text value.                         *)
(***************************************************************************)
EXTENDS Integers, Sequences, FiniteSets, TLC

VARIABLES
    cl_in,      \* SpecClean: the raw field value handed to clean_data
    cl_out,     \* SpecClean: loader name -> cleaned value, or Pending
    mc_year,    \* SpecMap: the year argument of map_columns_by_year
    mc_columns, \* SpecMap: the header (set of column names)
    mc_result,  \* SpecMap: NotCalled, or the outcome of the call
    mc_again,   \* SpecMap: the outcome of a later call with the same arguments
    bt,         \* SpecBatch: a flush of valid rows by batch_insert_ipeds
    db,         \* the store as committed: what every other session sees
    tx,         \* the store as the loader's open transaction sees it
    run,        \* the running loader: its position and its local variables
    out,        \* what the run has shown the operator and asked of the store
    pre,        \* the committed store when the current run started
    runs,       \* number of load runs started
    file,       \* the input file when a behaviour fixes it, or NotFixed
    done_runs,  \* the outcome and the committed store of each finished run
    qd          \* SpecQuery: the dashboard's calls of query_data

cleanVars == <<cl_in, cl_out>>
mapVars == <<mc_year, mc_columns, mc_result, mc_again>>
pureVars == <<cl_in, cl_out, mc_year, mc_columns, mc_result, mc_again, bt, qd>>
loadVars == <<db, tx, run, out, pre, runs, file, done_runs>>
vars == <<cl_in, cl_out, mc_year, mc_columns, mc_result, mc_again, bt,
          db, tx, run, out, pre, runs, file, done_runs, qd>>

None == <<"<None>">>
Pending == <<"<Pending>">>

Min(a, b) == IF a <= b THEN a ELSE b

----------------------------------------------------------------------------
(* Python string primitives                                                *)

Digits == {"0", "1", "2", "3", "4", "5", "6", "7", "8", "9"}

IsSpace(c) == c = " "

RECURSIVE lstrip(_)
lstrip(s) == IF s # <<>> /\ IsSpace(Head(s)) THEN lstrip(Tail(s)) ELSE s

RECURSIVE rstrip(_)
rstrip(s) ==
    IF s # <<>> /\ IsSpace(s[Len(s)]) THEN rstrip(SubSeq(s, 1, Len(s) - 1)) ELSE s

\* str.strip(): leading and trailing whitespace removed
strip(s) == rstrip(lstrip(s))

\* s[lo:hi] with 0 <= lo <= hi (Python slice, clipped to the string)
Slice(s, lo, hi) == SubSeq(s, lo + 1, Min(hi, Len(s)))

startswith(s, c) == Len(s) >= 1 /\ s[1] = c

\* str.isdigit(): non-empty and every character a decimal digit
isdigit(s) == s # <<>> /\ \A i \in 1..Len(s) : s[i] \in Digits

DigitChar(d) ==
    CASE d = 0 -> "0" [] d = 1 -> "1" [] d = 2 -> "2" [] d = 3 -> "3"
      [] d = 4 -> "4" [] d = 5 -> "5" [] d = 6 -> "6" [] d = 7 -> "7"
      [] d = 8 -> "8" [] d = 9 -> "9"

DigitVal(c) ==
    CASE c = "0" -> 0 [] c = "1" -> 1 [] c = "2" -> 2 [] c = "3" -> 3
      [] c = "4" -> 4 [] c = "5" -> 5 [] c = "6" -> 6 [] c = "7" -> 7
      [] c = "8" -> 8 [] c = "9" -> 9

RECURSIVE NatToStr(_)
NatToStr(n) ==
    IF n < 10 THEN <<DigitChar(n)>>
    ELSE NatToStr(n \div 10) \o <<DigitChar(n % 10)>>

\* f"{n}" for an int n
IntToStr(n) == IF n < 0 THEN <<"-">> \o NatToStr(0 - n) ELSE NatToStr(n)

----------------------------------------------------------------------------
(* clean_data: the three loaders' versions, per field value                *)

S_m999 == <<"-", "9", "9", "9">>
S_m2 == <<"-", "2">>
S_NULL == <<"N", "U", "L", "L">>
S_PrivacySuppressed ==
    <<"P", "r", "i", "v", "a", "c", "y",
      "S", "u", "p", "p", "r", "e", "s", "s", "e", "d">>

\* clean_data that only trims: no sentinel becomes None
clean_value_ipeds_OnlyTrims(value) ==
    IF value # None THEN strip(value) ELSE value

\* load_ipeds.clean_data, body of the loop for one column's value
clean_value_ipeds(value) ==
    LET v == IF value # None THEN strip(value) ELSE value
    IN  IF v \in {S_m999, <<>>, S_m2, S_NULL, None, S_PrivacySuppressed}
        THEN None ELSE v

\* load_scorecard.clean_data, body of the loop for one column's value
clean_value_scorecard(value) ==
    IF value \in {S_m999, <<>>, S_NULL, None, S_PrivacySuppressed}
    THEN None ELSE value

\* load_ipeds_aki.clean_data, body of the loop for one column's value
clean_value_aki(value) ==
    IF value \in {S_m999, <<>>, S_NULL, None, S_PrivacySuppressed}
    THEN None ELSE value

Loaders == {"load_ipeds", "load_scorecard", "load_ipeds_aki"}

clean_value(loader, value) ==
    CASE loader = "load_ipeds" -> clean_value_ipeds(value)
      [] loader = "load_scorecard" -> clean_value_scorecard(value)
      [] loader = "load_ipeds_aki" -> clean_value_aki(value)

\* clean_data(row, columns): row.get(col) is None for a column the row lacks
clean_data(loader, row, columns) ==
    [col \in columns |->
        clean_value(loader, IF col \in DOMAIN row THEN row[col] ELSE None)]

----------------------------------------------------------------------------
(* The store: Institutions, Location, IPEDS_Directory, Financial_Data and  *)
(* Admissions_Data, with the keys of the data model.                       *)

NoRow == <<"<NoRow>">>

\* institution identifiers that occur in the model
UnitIds == {1, 2, 3, 4}

\* the file years of the modelled runs: hd2022.csv and MERGED2021_22_PP.csv
IpedsFileYear == 2022
ScorecardStartYear == 2021

YearlyKeys == {IpedsFileYear - 1, ScorecardStartYear + 1} \X UnitIds

EmptyStore ==
    [Institutions |-> {},
     Location |-> [u \in UnitIds |-> NoRow],
     IPEDS_Directory |-> [k \in YearlyKeys |-> 0],
     Financial_Data |-> [k \in YearlyKeys |-> 0],
     Admissions_Data |-> [k \in YearlyKeys |-> 0]]

RECURSIVE SumOver(_, _)
SumOver(f, S) ==
    IF S = {} THEN 0
    ELSE LET k == CHOOSE x \in S : TRUE IN f[k] + SumOver(f, S \ {k})

\* SELECT count(*) of a yearly table
RowCount(table) == SumOver(table, DOMAIN table)

\* int(text): the value, for text that int() accepts
IsIntText(text) ==
    LET t == strip(text)
    IN  \/ isdigit(t)
        \/ /\ Len(t) >= 2
           /\ t[1] \in {"+", "-"}
           /\ isdigit(Tail(t))

RECURSIVE DigitsToNat(_)
DigitsToNat(t) ==
    IF t = <<>> THEN 0
    ELSE 10 * DigitsToNat(SubSeq(t, 1, Len(t) - 1)) + DigitVal(t[Len(t)])

IntOf(text) ==
    LET t == strip(text)
    IN  IF t[1] = "-" THEN 0 - DigitsToNat(Tail(t))
        ELSE IF t[1] = "+" THEN DigitsToNat(Tail(t))
        ELSE DigitsToNat(t)

----------------------------------------------------------------------------
(* map_columns_by_year                                                     *)

S_C == <<"C">>
S_BASIC == <<"B", "A", "S", "I", "C">>
S_UGPRF == <<"U", "G", "P", "R", "F">>
S_SZSET == <<"S", "Z", "S", "E", "T">>
S_IPUG == <<"I", "P", "U", "G">>
S_IPGRD == <<"I", "P", "G", "R", "D">>
S_ENPRF == <<"E", "N", "P", "R", "F">>
S_ADDR == <<"A", "D", "D", "R">>
S_CBSA == <<"C", "B", "S", "A">>
S_UNITID == <<"U", "N", "I", "T", "I", "D">>

SchemaFields ==
    {"CCBASIC", "CCUGPROF", "CCSIZSET", "CCIPUG", "CCIPGRD", "CCENPROF"}

\* the suffix that the mappings dict pairs with each schema column
Suffix(schema) ==
    CASE schema = "CCBASIC" -> S_BASIC
      [] schema = "CCUGPROF" -> S_UGPRF
      [] schema = "CCSIZSET" -> S_SZSET
      [] schema = "CCIPUG" -> S_IPUG
      [] schema = "CCIPGRD" -> S_IPGRD
      [] schema = "CCENPROF" -> S_ENPRF

\* {col[:3] for col in columns if col[:3].startswith("C") and col[1:3].isdigit()}
year_prefixes(columns) ==
    {Slice(col, 0, 3) : col \in
        {c \in columns : startswith(Slice(c, 0, 3), "C") /\ isdigit(Slice(c, 1, 3))}}

\* f"C{year % 100 - 1}"
target_prefix(year) == S_C \o IntToStr((year % 100) - 1)

\* Mappings without the "if col in columns" test
Mappings_NoHeaderCheck(prefix, columns) ==
    [schema \in SchemaFields |-> prefix \o Suffix(schema)]

\* {schema: col if col in columns else None for col, schema in mappings.items()}
Mappings(prefix, columns) ==
    [schema \in SchemaFields |->
        IF prefix \o Suffix(schema) \in columns
        THEN prefix \o Suffix(schema) ELSE None]

\* map_columns_by_year without the fallback to a prefix found in the header
map_columns_by_year_NoFallback(columns, year) ==
    LET found == year_prefixes(columns)
        target == target_prefix(year)
    IN  IF target \in found
        THEN {[called |-> TRUE, raised |-> FALSE, warned |-> FALSE, target |-> target,
               prefix |-> target, mapping |-> Mappings(target, columns)]}
        ELSE {[called |-> TRUE, raised |-> TRUE, warned |-> TRUE, target |-> target,
               prefix |-> None, mapping |-> None]}

\* map_columns_by_year without the "if not target_prefix: raise"
map_columns_by_year_NoRaise(columns, year) ==
    LET found == year_prefixes(columns)
        target == target_prefix(year)
        chosen == IF target \in found \/ found = {} THEN {target} ELSE found
    IN  {[called |-> TRUE, raised |-> FALSE, warned |-> target \notin found,
          target |-> target, prefix |-> p, mapping |-> Mappings(p, columns)] :
            p \in chosen}

\* The outcomes of map_columns_by_year(columns, year).  set.pop() removes an
\* arbitrary element, so the fallback prefix is any member of year_prefixes.
map_columns_by_year(columns, year) ==
    LET found == year_prefixes(columns)
        target == target_prefix(year)
    IN  IF target \in found
        THEN {[called |-> TRUE, raised |-> FALSE, warned |-> FALSE, target |-> target,
               prefix |-> target, mapping |-> Mappings(target, columns)]}
        ELSE IF found = {}
        THEN {[called |-> TRUE, raised |-> TRUE, warned |-> TRUE, target |-> target,
               prefix |-> None, mapping |-> None]}
        ELSE {[called |-> TRUE, raised |-> FALSE, warned |-> TRUE, target |-> target,
               prefix |-> p, mapping |-> Mappings(p, columns)] : p \in found}

\* mc_result before the call
NotCalled ==
    [called |-> FALSE, raised |-> FALSE, warned |-> FALSE, target |-> None,
     prefix |-> None, mapping |-> None]

(* Inputs of the column resolver *)
S_C21 == <<"C", "2", "1">>
S_C15 == <<"C", "1", "5">>
S_C04 == <<"C", "0", "4">>
S_C99 == <<"C", "9", "9">>
S_C4 == <<"C", "4">>

ColumnPool ==
    {S_ADDR, S_CBSA, S_C4,
     S_C21 \o S_BASIC, S_C21 \o S_UGPRF, S_C21 \o S_IPUG,
     S_C15 \o S_BASIC, S_C15 \o S_ENPRF,
     S_C04 \o S_SZSET, S_C04 \o S_IPGRD,
     S_C99 \o S_BASIC, S_C4 \o S_BASIC}

Years == {2000, 2001, 2005, 2010, 2011, 2016, 2022}

MapInit ==
    /\ mc_year \in Years
    /\ mc_columns \in SUBSET ColumnPool
    /\ mc_result = NotCalled
    /\ mc_again = NotCalled

MapColumns ==
    /\ mc_result = NotCalled
    /\ mc_result' \in map_columns_by_year(mc_columns, mc_year)
    /\ UNCHANGED <<mc_year, mc_columns, mc_again, cleanVars, bt, loadVars, qd>>

\* a later invocation of the loader on the same file calls
\* map_columns_by_year with the same year and header
MapColumnsAgain ==
    /\ mc_result.called
    /\ mc_again = NotCalled
    /\ mc_again' \in map_columns_by_year(mc_columns, mc_year)
    /\ UNCHANGED <<mc_year, mc_columns, mc_result, cleanVars, bt, loadVars, qd>>

CleanIdle ==
    /\ cl_in = None
    /\ cl_out = [l \in Loaders |-> Pending]

MapNext ==
    \/ MapColumns
    \/ MapColumnsAgain


(* Inputs of the value normalizer *)
MaxValLen == 3
ValAlphabet == {" ", "-", "2", "a"}

RECURSIVE SeqsUpTo(_, _)
SeqsUpTo(A, n) ==
    IF n = 0 THEN {<<>>}
    ELSE LET shorter == SeqsUpTo(A, n - 1)
         IN  shorter \cup {s \o <<c>> : s \in shorter, c \in A}

Sentinels == {<<>>, S_m999, S_m2, S_NULL, S_PrivacySuppressed}

Padded(s) == {s, <<" ">> \o s, s \o <<" ">>, <<" ">> \o s \o <<" ">>}

RawValues ==
    {None} \cup SeqsUpTo(ValAlphabet, MaxValLen)
           \cup UNION {Padded(s) : s \in Sentinels}
           \cup Padded(<<"N", "Y">>)

CleanInit ==
    /\ cl_in \in RawValues
    /\ cl_out = [l \in Loaders |-> Pending]

CleanValue(loader) ==
    /\ cl_out[loader] = Pending
    /\ cl_out' = [cl_out EXCEPT ![loader] = clean_value(loader, cl_in)]
    /\ UNCHANGED <<cl_in, mapVars, bt, loadVars, qd>>

CleanIpeds == CleanValue("load_ipeds")
CleanScorecard == CleanValue("load_scorecard")
CleanAki == CleanValue("load_ipeds_aki")

MapIdle ==
    /\ mc_year = 0
    /\ mc_columns = {}
    /\ mc_result = NotCalled
    /\ mc_again = NotCalled

CleanNext ==
    \/ CleanIpeds
    \/ CleanScorecard
    \/ CleanAki


----------------------------------------------------------------------------
(* load_ipeds.py: batch_insert_location, batch_insert_ipeds and            *)
(* load_ipeds_data, one action per step of the run                         *)

\* rows a modelled file holds at most
MaxRows == 3
\* load runs a behaviour starts at most
MaxRuns == 2
\* load_ipeds_data calls batch_insert_ipeds with its default batch_size of
\* 1000; the model scales it down so that a file of MaxRows rows needs more
\* than one batch.
batch_size == 2

NoExc == [type |-> "none", msg |-> "none"]
ValueError(m) == [type |-> "ValueError", msg |-> m]
StoreError(m) == [type |-> "StoreError", msg |-> m]

MsgStatementTimeout == "canceling statement due to statement timeout"
MsgDuplicateKey == "duplicate key value violates unique constraint"
MsgNotNull == "null value in column violates not-null constraint"
MsgBadInteger == "invalid input syntax for type integer"
MsgForeignKey == "insert or update violates foreign key constraint"

\* the local variables of a run before it starts
IdleRun ==
    [pc |-> "idle", loader |-> "none", conn_open |-> FALSE, year |-> 0,
     header |-> {}, existing_unitids |-> {}, mapped_columns |-> None,
     ipeds_data |-> <<>>, addr_updates |-> <<>>, skipped_records |-> 0,
     total_rows |-> 0, null_addr_count |-> 0, i |-> 0,
     institutions_data |-> <<>>, location_data |-> <<>>,
     financial_data |-> <<>>, admissions_data |-> <<>>,
     map_called |-> FALSE, exc |-> NoExc]

NoOut ==
    [outcome |-> "none", reported |-> "none", store_exc |-> "none",
     warned |-> FALSE, summary |-> <<>>, batches |-> <<>>, wrote |-> FALSE]

FileRecord(fixed, loader, name_ok, header, rows) ==
    [fixed |-> fixed, loader |-> loader, name_ok |-> name_ok,
     header |-> header, rows |-> rows]

NotFixed == FileRecord(FALSE, "none", TRUE, {}, <<>>)

\* the upsert without its WHERE clause
upsert_location_NoGuard(location, unitid, addr) ==
    [location EXCEPT ![unitid] = addr]

\* One row of the statement in batch_insert_location:
\* INSERT ... ON CONFLICT (UNITID) DO UPDATE SET ADDR = EXCLUDED.ADDR
\* WHERE Location.ADDR IS NULL OR Location.ADDR = ''
upsert_location(location, unitid, addr) ==
    IF location[unitid] = NoRow THEN [location EXCEPT ![unitid] = addr]
    ELSE IF location[unitid] = None \/ location[unitid] = <<>>
    THEN [location EXCEPT ![unitid] = addr]
    ELSE location

\* cursor.executemany(sql, addr_updates): the rows in order; the text UNITID
\* of a row is read by the store as an integer
RECURSIVE batch_insert_location(_, _)
batch_insert_location(location, addr_updates) ==
    IF addr_updates = <<>> THEN location
    ELSE batch_insert_location(
             upsert_location(location, IntOf(Head(addr_updates)[1]),
                             Head(addr_updates)[2]),
             Tail(addr_updates))

\* range(0, len(data), batch_size)
BatchStarts(n, b) == {i \in 0..(n - 1) : i % b = 0}

\* batch_insert_ipeds with a loop that stops before a final partial batch
batch_insert_ipeds_DropsRemainder(data, b) ==
    [j \in 1..(Len(data) \div b) |-> Slice(data, (j - 1) * b, (j - 1) * b + b)]

\* batch_insert_ipeds: the batches data[i:i + batch_size] in loop order
batch_insert_ipeds(data, b) ==
    [j \in 1..Cardinality(BatchStarts(Len(data), b)) |->
        Slice(data, (j - 1) * b, (j - 1) * b + b)]

\* the key of an IPEDS_Directory tuple (YEAR, UNITID, ...)
IpedsKey(row_data) == <<row_data[1], IntOf(row_data[2])>>

\* INSERT INTO IPEDS_Directory ... (no conflict clause) of the rows in order:
\* the table after them and, when a row's key is already present, the
\* position of that row (0 when all were inserted)
RECURSIVE insert_ipeds_rows(_, _, _)
insert_ipeds_rows(table, rows, pos) ==
    IF rows = <<>> THEN [table |-> table, dup |-> 0]
    ELSE IF table[IpedsKey(Head(rows))] > 0 THEN [table |-> table, dup |-> pos]
    ELSE insert_ipeds_rows(
             [table EXCEPT ![IpedsKey(Head(rows))] = 1], Tail(rows), pos + 1)

\* a handler that keeps the transaction's writes
rollback_Keeps(committed, working) == working

\* conn.rollback(): the transaction's writes are dropped
rollback(committed, working) == committed

\* conn.commit(): the transaction's writes become the committed store
commit(committed, working) == working

(* Inputs of a load_ipeds run *)
UnitIdTexts ==
    {None, <<>>, <<"1">>, <<" ", "2">>, <<"3">>, <<"4">>, <<"x">>}
AddrTexts == {None, <<>>, <<"A">>, <<"B", " ">>}

IpedsRows == {[c \in {S_UNITID, S_ADDR} |-> IF c = S_UNITID THEN u ELSE a] :
                 u \in UnitIdTexts, a \in AddrTexts}

IpedsHeaders ==
    {{S_UNITID, S_ADDR, S_CBSA, S_C21 \o S_BASIC},
     {S_UNITID, S_ADDR, S_C15 \o S_BASIC},
     {S_UNITID, S_ADDR, S_CBSA},
     {S_UNITID, S_CBSA, S_C21 \o S_BASIC}}

\* row.get(col)
Get(row, col) == IF col \in DOMAIN row THEN row[col] ELSE None

\* the dict csv.DictReader yields: the file's fields under the header's names
DictRow(fields, header) == [c \in (DOMAIN fields) \cap header |-> fields[c]]

\* the rows the reader can yield next
NextRows(pool) ==
    IF file.fixed
    THEN IF run.total_rows < Len(file.rows)
         THEN {file.rows[run.total_rows + 1]} ELSE {}
    ELSE IF run.total_rows < MaxRows THEN pool ELSE {}

AtEndOfFile ==
    IF file.fixed THEN run.total_rows = Len(file.rows) ELSE TRUE

\* done_runs after a run ends; kept for the behaviours that fix the file
Finished(outcome) ==
    IF file.fixed THEN Append(done_runs, [outcome |-> outcome, db |-> db])
    ELSE done_runs

CanStart(loader) ==
    /\ run.pc \in {"idle", "done", "crashed"}
    /\ runs < MaxRuns
    /\ file.fixed => file.loader = loader

Raise(e) == [run EXCEPT !.pc = "except", !.exc = e]

\* conn = connect_db(); cursor = conn.cursor();
\* year = extract_year_from_filename(file_path), which raises outside the try
\* when the name does not match hdYYYY.csv
StartIpeds ==
    /\ CanStart("load_ipeds")
    /\ \E name_ok \in (IF file.fixed THEN {file.name_ok} ELSE BOOLEAN),
          header \in (IF file.fixed THEN {file.header} ELSE IpedsHeaders) :
          /\ run' = IF name_ok
                    THEN [IdleRun EXCEPT
                             !.pc = "preload", !.loader = "load_ipeds",
                             !.conn_open = TRUE, !.year = IpedsFileYear,
                             !.header = header]
                    ELSE [IdleRun EXCEPT
                             !.pc = "crashed", !.loader = "load_ipeds",
                             !.conn_open = TRUE,
                             !.exc = ValueError(
                                 "Filename must have format hdYYYY.csv")]
          /\ out' = IF name_ok THEN NoOut ELSE [NoOut EXCEPT !.outcome = "crashed"]
          /\ done_runs' = IF name_ok THEN done_runs
                          ELSE Finished("crashed")
    /\ tx' = db
    /\ pre' = db
    /\ runs' = runs + 1
    /\ UNCHANGED <<db, file>>
    /\ UNCHANGED pureVars

\* existing_unitids = preload_unitids(cursor)
Preload ==
    /\ run.pc = "preload"
    /\ \/ /\ run' = [run EXCEPT !.pc = "open",
                                !.existing_unitids = tx.Institutions]
          /\ out' = out
       \/ /\ run' = Raise(StoreError(MsgStatementTimeout))
          /\ out' = [out EXCEPT !.store_exc = MsgStatementTimeout]
    /\ UNCHANGED <<db, tx, pre, runs, file, done_runs>>
    /\ UNCHANGED pureVars

\* the header is read, ADDR is required, the columns are mapped
OpenFile ==
    /\ run.pc = "open"
    /\ IF S_ADDR \notin run.header
       THEN /\ run' = Raise(ValueError("ADDR column missing from CSV file."))
            /\ out' = out
       ELSE \E r \in map_columns_by_year(run.header, run.year) :
               /\ run' = IF r.raised
                         THEN [run EXCEPT
                                  !.pc = "except", !.map_called = TRUE,
                                  !.exc = ValueError(
                                      "No valid year prefix found in columns.")]
                         ELSE [run EXCEPT !.pc = "reading", !.map_called = TRUE,
                                          !.mapped_columns = r.mapping]
               /\ out' = [out EXCEPT !.warned = r.warned]
    /\ UNCHANGED <<db, tx, pre, runs, file, done_runs>>
    /\ UNCHANGED pureVars

\* "not unitid or int(unitid) not in existing_unitids", for a unitid that
\* int() accepts or that is falsy
Rejected(unitid, existing_unitids) ==
    \/ unitid = None
    \/ unitid = <<>>
    \/ IntOf(unitid) \notin existing_unitids

\* one iteration of "for row in reader"
ReadRow ==
    /\ run.pc = "reading"
    /\ \E fields \in NextRows(IpedsRows) :
        LET row == DictRow(fields, run.header)
            unitid == Get(row, S_UNITID)
            counted == [run EXCEPT !.total_rows = @ + 1]
            cleaned_row == clean_data("load_ipeds", row, run.header)
            addr_value == cleaned_row[S_ADDR]
            row_data == <<run.year - 1, unitid>>
        IN  run' =
              IF unitid # None /\ unitid # <<>> /\ ~IsIntText(unitid)
              THEN [counted EXCEPT
                       !.pc = "except",
                       !.exc = ValueError("invalid literal for int() with base 10")]
              ELSE IF Rejected(unitid, run.existing_unitids)
              THEN [counted EXCEPT !.skipped_records = @ + 1]
              ELSE [counted EXCEPT
                       !.null_addr_count =
                           IF addr_value = None THEN @ + 1 ELSE @,
                       !.ipeds_data = Append(@, row_data),
                       !.addr_updates =
                           IF addr_value # None /\ addr_value # <<>>
                           THEN Append(@, <<unitid, addr_value>>) ELSE @]
    /\ UNCHANGED <<db, tx, out, pre, runs, file, done_runs>>
    /\ UNCHANGED pureVars

\* the reader is exhausted: the five counts are printed
EndOfFile ==
    /\ run.pc = "reading"
    /\ AtEndOfFile
    /\ run' = [run EXCEPT !.pc = "flush_location"]
    /\ out' = [out EXCEPT !.summary =
                  <<[total_rows |-> run.total_rows,
                     skipped_records |-> run.skipped_records,
                     prepared |-> Len(run.ipeds_data),
                     addr_updates |-> Len(run.addr_updates),
                     null_addr_count |-> run.null_addr_count]>>]
    /\ UNCHANGED <<db, tx, pre, runs, file, done_runs>>
    /\ UNCHANGED pureVars

\* "if addr_updates: batch_insert_location(cursor, addr_updates)"; the store
\* may fail the executemany after any number of its rows
FlushLocation ==
    /\ run.pc = "flush_location"
    /\ \/ /\ run' = [run EXCEPT !.pc = "flush_ipeds", !.i = 0]
          /\ tx' = [tx EXCEPT !.Location =
                       batch_insert_location(@, run.addr_updates)]
          /\ out' = [out EXCEPT !.wrote = @ \/ run.addr_updates # <<>>]
       \/ /\ run.addr_updates # <<>>
          /\ \E k \in 0..(Len(run.addr_updates) - 1) :
                tx' = [tx EXCEPT !.Location =
                          batch_insert_location(@, SubSeq(run.addr_updates, 1, k))]
          /\ run' = Raise(StoreError(MsgStatementTimeout))
          /\ out' = [out EXCEPT !.store_exc = MsgStatementTimeout, !.wrote = TRUE]
    /\ UNCHANGED <<db, pre, runs, file, done_runs>>
    /\ UNCHANGED pureVars

\* "if ipeds_data: batch_insert_ipeds(...)": one iteration of its loop, the
\* executemany of data[i:i + batch_size], or the end of the loop
FlushIpeds ==
    /\ run.pc = "flush_ipeds"
    /\ LET batches == batch_insert_ipeds(run.ipeds_data, batch_size)
           j == (run.i \div batch_size) + 1
       IN  IF j > Len(batches)
           THEN /\ run' = [run EXCEPT !.pc = "commit"]
                /\ UNCHANGED <<tx, out>>
           ELSE LET res == insert_ipeds_rows(tx.IPEDS_Directory, batches[j], 1)
                    sent == [out EXCEPT !.batches = Append(@, batches[j]),
                                        !.wrote = TRUE]
                IN  \/ /\ res.dup = 0
                       /\ tx' = [tx EXCEPT !.IPEDS_Directory = res.table]
                       /\ run' = [run EXCEPT !.i = @ + batch_size]
                       /\ out' = sent
                    \/ /\ res.dup > 0
                       /\ tx' = [tx EXCEPT !.IPEDS_Directory = res.table]
                       /\ run' = Raise(StoreError(MsgDuplicateKey))
                       /\ out' = [sent EXCEPT !.store_exc = MsgDuplicateKey]
                    \/ /\ \E k \in 0..(Len(batches[j]) - 1) :
                            /\ res.dup = 0 \/ k < res.dup
                            /\ tx' = [tx EXCEPT !.IPEDS_Directory =
                                  insert_ipeds_rows(@, SubSeq(batches[j], 1, k), 1).table]
                       /\ run' = Raise(StoreError(MsgStatementTimeout))
                       /\ out' = [sent EXCEPT !.store_exc = MsgStatementTimeout]
    /\ UNCHANGED <<db, pre, runs, file, done_runs>>
    /\ UNCHANGED pureVars

\* conn.commit()
Commit ==
    /\ run.pc = "commit"
    /\ \/ /\ db' = commit(db, tx)
          /\ run' = [run EXCEPT !.pc = "finally"]
          /\ out' = [out EXCEPT !.outcome = "committed"]
       \/ /\ db' = db
          /\ run' = Raise(StoreError(MsgStatementTimeout))
          /\ out' = [out EXCEPT !.store_exc = MsgStatementTimeout]
    /\ UNCHANGED <<tx, pre, runs, file, done_runs>>
    /\ UNCHANGED pureVars

\* except Exception as e: conn.rollback(); print(f"Error: {e}")
Except ==
    /\ run.pc = "except"
    /\ tx' = rollback(db, tx)
    /\ db' = rollback(db, tx)
    /\ out' = [out EXCEPT !.outcome = "rolled_back", !.reported = run.exc.msg]
    /\ run' = [run EXCEPT !.pc = "finally"]
    /\ UNCHANGED <<pre, runs, file, done_runs>>
    /\ UNCHANGED pureVars

\* finally: cursor.close(); conn.close()
Finally ==
    /\ run.pc = "finally"
    /\ run' = [run EXCEPT !.pc = "done", !.conn_open = FALSE]
    /\ done_runs' = Finished(out.outcome)
    /\ UNCHANGED <<db, tx, out, pre, runs, file>>
    /\ UNCHANGED pureVars

----------------------------------------------------------------------------
(* load_scorecard.py: insert_data and load_scorecard_data                  *)

S_ADDRESS == <<"A", "D", "D", "R", "E", "S", "S">>

\* the insert without a conflict clause into a table without a key
insert_always(table, key) == [table EXCEPT ![key] = @ + 1]

\* INSERT ... ON CONFLICT DO NOTHING of one row into a table keyed by
\* (YEAR, UNITID): a key that is present keeps its row
insert_do_nothing(table, key) ==
    IF table[key] > 0 THEN table ELSE [table EXCEPT ![key] = 1]

\* the store's check of the UNITID of a row: "none" or the error's message
UnitIdError(store, table, unitid) ==
    IF unitid = None THEN MsgNotNull
    ELSE IF ~IsIntText(unitid) THEN MsgBadInteger
    ELSE IF table # "Institutions" /\ IntOf(unitid) \notin store.Institutions
    THEN MsgForeignKey
    ELSE "none"

\* one row of insert_data's statement for the named table
insert_row(store, table, row) ==
    CASE table = "Institutions" ->
            [store EXCEPT !.Institutions = @ \cup {IntOf(row[1])}]
      [] table = "Location" ->
            [store EXCEPT !.Location =
                IF @[IntOf(row[1])] # NoRow THEN @
                ELSE [@ EXCEPT ![IntOf(row[1])] = row[2]]]
      [] table = "Financial_Data" ->
            [store EXCEPT !.Financial_Data =
                insert_do_nothing(@, <<row[1], IntOf(row[2])>>)]
      [] table = "Admissions_Data" ->
            [store EXCEPT !.Admissions_Data =
                insert_do_nothing(@, <<row[1], IntOf(row[2])>>)]

UnitIdOf(table, row) ==
    IF table \in {"Institutions", "Location"} THEN row[1] ELSE row[2]

\* insert_data: cursor.executemany(sql, data), the rows in order until the
\* store refuses one
RECURSIVE insert_data(_, _, _)
insert_data(store, table, data) ==
    IF data = <<>> THEN [store |-> store, err |-> "none"]
    ELSE LET e == UnitIdError(store, table, UnitIdOf(table, Head(data)))
         IN  IF e # "none" THEN [store |-> store, err |-> e]
             ELSE insert_data(insert_row(store, table, Head(data)), table,
                              Tail(data))

(* Inputs of a load_scorecard run *)
ScorecardUnitIds == {None, <<"1">>, <<"2">>, <<"x">>}
ScorecardAddresses == {None, <<"C">>}

ScorecardRows ==
    {[c \in {S_UNITID, S_ADDRESS} |-> IF c = S_UNITID THEN u ELSE a] :
        u \in ScorecardUnitIds, a \in ScorecardAddresses}

\* conn = connect_db(); cursor = conn.cursor();
\* year = extract_year_from_filename(file_path), which raises outside the try
\* when the name does not match MERGEDYYYY_YY_
StartScorecard ==
    /\ CanStart("load_scorecard")
    /\ \E name_ok \in (IF file.fixed THEN {file.name_ok} ELSE BOOLEAN) :
          /\ run' = IF name_ok
                    THEN [IdleRun EXCEPT
                             !.pc = "sc_reading", !.loader = "load_scorecard",
                             !.conn_open = TRUE, !.year = ScorecardStartYear + 1]
                    ELSE [IdleRun EXCEPT
                             !.pc = "crashed", !.loader = "load_scorecard",
                             !.conn_open = TRUE,
                             !.exc = ValueError(
                                 "Filename must have format MERGEDYYYY_YY_*.csv")]
          /\ out' = IF name_ok THEN NoOut ELSE [NoOut EXCEPT !.outcome = "crashed"]
          /\ done_runs' = IF name_ok THEN done_runs
                          ELSE Finished("crashed")
    /\ tx' = db
    /\ pre' = db
    /\ runs' = runs + 1
    /\ UNCHANGED <<db, file>>
    /\ UNCHANGED pureVars

\* one iteration of "for row in reader": the four tuples of the row
ScReadRow ==
    /\ run.pc = "sc_reading"
    /\ \E row \in NextRows(ScorecardRows) :
        LET unitid == clean_data("load_scorecard", row, {S_UNITID})[S_UNITID]
            location_row ==
                clean_data("load_scorecard", row, {S_UNITID, S_ADDRESS})
        IN  run' = [run EXCEPT
                       !.total_rows = @ + 1,
                       !.institutions_data = Append(@, <<unitid>>),
                       !.location_data =
                           Append(@, <<location_row[S_UNITID],
                                       location_row[S_ADDRESS]>>),
                       !.financial_data = Append(@, <<run.year, unitid>>),
                       !.admissions_data = Append(@, <<run.year, unitid>>)]
    /\ UNCHANGED <<db, tx, out, pre, runs, file, done_runs>>
    /\ UNCHANGED pureVars

ScEndOfFile ==
    /\ run.pc = "sc_reading"
    /\ AtEndOfFile
    /\ run' = [run EXCEPT !.pc = "sc_Institutions"]
    /\ UNCHANGED <<db, tx, out, pre, runs, file, done_runs>>
    /\ UNCHANGED pureVars

ScTables ==
    <<"Institutions", "Location", "Financial_Data", "Admissions_Data">>

ScData(table) ==
    CASE table = "Institutions" -> run.institutions_data
      [] table = "Location" -> run.location_data
      [] table = "Financial_Data" -> run.financial_data
      [] table = "Admissions_Data" -> run.admissions_data

ScPc(n) == IF n > Len(ScTables) THEN "commit" ELSE "sc_" \o ScTables[n]

\* "if <table>_data: insert_data(cursor, <table>, ...)", for the four tables
\* in turn; the store may also fail the executemany after some of its rows
ScInsert ==
    \E n \in 1..Len(ScTables) :
        /\ run.pc = ScPc(n)
        /\ LET data == ScData(ScTables[n])
               res == insert_data(tx, ScTables[n], data)
           IN  \/ /\ res.err = "none"
                  /\ tx' = res.store
                  /\ run' = [run EXCEPT !.pc = ScPc(n + 1)]
                  /\ out' = [out EXCEPT !.wrote = @ \/ data # <<>>]
               \/ /\ res.err # "none"
                  /\ tx' = res.store
                  /\ run' = Raise(StoreError(res.err))
                  /\ out' = [out EXCEPT !.wrote = TRUE, !.store_exc = res.err]
               \/ /\ data # <<>>
                  /\ \E k \in 0..(Len(data) - 1) :
                        LET part == insert_data(tx, ScTables[n], SubSeq(data, 1, k))
                        IN  /\ part.err = "none"
                            /\ tx' = part.store
                  /\ run' = Raise(StoreError(MsgStatementTimeout))
                  /\ out' = [out EXCEPT !.wrote = TRUE,
                                        !.store_exc = MsgStatementTimeout]
        /\ UNCHANGED <<db, pre, runs, file, done_runs>>
        /\ UNCHANGED pureVars

----------------------------------------------------------------------------
(* batch_insert_ipeds followed by conn.commit(), for a file of valid rows  *)
(* and any batch size                                                      *)

\* accepted rows of the flushed file at most
MaxBatchRows == 10
\* batch sizes tried, from 1
MaxBatchSize == 4

BatchTable == [k \in {IpedsFileYear - 1} \X (1..MaxBatchRows) |-> 0]

BatchIdle ==
    bt = [pc |-> "idle", data |-> <<>>, batch_size |-> 1, i |-> 0,
          sent |-> <<>>, tx |-> BatchTable, db |-> BatchTable]

\* n accepted rows with distinct identifiers, in file order
ValidRows(n) == [k \in 1..n |-> <<IpedsFileYear - 1, IntToStr(k)>>]

BatchInit ==
    \E n \in 0..MaxBatchRows, b \in 1..MaxBatchSize :
        bt = [pc |-> "flush_ipeds", data |-> ValidRows(n), batch_size |-> b,
              i |-> 0, sent |-> <<>>, tx |-> BatchTable, db |-> BatchTable]

\* one iteration of "for i in range(0, len(data), batch_size)"
BatchWrite ==
    /\ bt.pc = "flush_ipeds"
    /\ LET batches == batch_insert_ipeds(bt.data, bt.batch_size)
           j == (bt.i \div bt.batch_size) + 1
       IN  /\ j <= Len(batches)
           /\ bt' = [bt EXCEPT
                        !.i = @ + bt.batch_size,
                        !.sent = Append(@, batches[j]),
                        !.tx = insert_ipeds_rows(@, batches[j], 1).table]
    /\ UNCHANGED <<cleanVars, mapVars, loadVars, qd>>

\* the loop is over: conn.commit()
BatchCommit ==
    /\ bt.pc = "flush_ipeds"
    /\ (bt.i \div bt.batch_size) + 1 >
           Len(batch_insert_ipeds(bt.data, bt.batch_size))
    /\ bt' = [bt EXCEPT !.pc = "committed", !.db = commit(bt.db, bt.tx)]
    /\ UNCHANGED <<cleanVars, mapVars, loadVars, qd>>

BatchNext ==
    \/ BatchWrite
    \/ BatchCommit

----------------------------------------------------------------------------
(* app.py: query_data, one action per step of a call                       *)

\* calls of query_data in one behaviour at most
MaxCalls == 3

\* queries and parameter tuples the dashboard passes
Queries == {"query1", "query_tuition_summary1", "query_aggregate_trends"}
QueryParameters == {"None", "(selected_year,)"}

\* the errors psycopg.connect and pd.read_sql_query raise
OperationalError == "connection failed"
DatabaseError == "Execution failed on sql"

QueryIdle ==
    qd = [pc |-> "idle", query |-> "none", parameters |-> "None",
          connection |-> "unbound", ret |-> "unset", result |-> "none",
          exc |-> "none", shown |-> "none", calls |-> 0,
          opened |-> 0, closed |-> 0]

\* query_data(query, parameters): the local name connection is not bound yet
QueryCall ==
    /\ qd.pc \in {"idle", "returned", "raised"}
    /\ qd.calls < MaxCalls
    /\ \E query \in Queries, parameters \in QueryParameters :
          qd' = [qd EXCEPT !.pc = "connect", !.query = query,
                           !.parameters = parameters,
                           !.connection = "unbound", !.ret = "unset",
                           !.result = "none", !.exc = "none",
                           !.shown = "none", !.calls = @ + 1]
    /\ UNCHANGED <<cleanVars, mapVars, bt, loadVars>>

\* connection = connect_db(): psycopg.connect returns a connection or raises
QueryConnect ==
    /\ qd.pc = "connect"
    /\ \/ qd' = [qd EXCEPT !.pc = "read", !.connection = "open",
                           !.opened = @ + 1]
       \/ qd' = [qd EXCEPT !.pc = "except", !.exc = OperationalError]
    /\ UNCHANGED <<cleanVars, mapVars, bt, loadVars>>

\* df = pd.read_sql_query(query, connection, params=parameters); return df
QueryRead ==
    /\ qd.pc = "read"
    /\ \/ qd' = [qd EXCEPT !.pc = "finally", !.ret = "df"]
       \/ qd' = [qd EXCEPT !.pc = "except", !.exc = DatabaseError]
    /\ UNCHANGED <<cleanVars, mapVars, bt, loadVars>>

\* except Exception as e: st.error(f"Invalid query: {e}"); return None
QueryExcept ==
    /\ qd.pc = "except"
    /\ qd' = [qd EXCEPT !.pc = "finally", !.shown = qd.exc, !.exc = "none",
                        !.ret = "None"]
    /\ UNCHANGED <<cleanVars, mapVars, bt, loadVars>>

\* finally: connection.close().  Reading a local name that was never bound
\* raises UnboundLocalError, which replaces the pending return.
QueryFinally ==
    /\ qd.pc = "finally"
    /\ qd' = IF qd.connection = "unbound"
             THEN [qd EXCEPT !.pc = "raised", !.exc = "UnboundLocalError",
                             !.result = "raised"]
             ELSE [qd EXCEPT !.pc = "returned", !.connection = "closed",
                             !.closed = @ + 1, !.result = qd.ret]
    /\ UNCHANGED <<cleanVars, mapVars, bt, loadVars>>

QueryNext ==
    \/ QueryCall
    \/ QueryConnect
    \/ QueryRead
    \/ QueryExcept
    \/ QueryFinally

----------------------------------------------------------------------------
(* The specifications                                                      *)

\* a store loaded by other means before the modelled runs
LoadedStore(addr1) ==
    [EmptyStore EXCEPT
        !.Institutions = {1, 2, 3},
        !.Location = [u \in UnitIds |->
                         IF u = 1 THEN addr1
                         ELSE IF u = 2 THEN <<"Z">>
                         ELSE IF u = 3 THEN None ELSE NoRow]]

InitStores ==
    {EmptyStore} \cup {LoadedStore(a) : a \in {NoRow, None, <<>>, <<"Y">>}}

LoadIdle ==
    /\ db = EmptyStore
    /\ tx = EmptyStore
    /\ run = IdleRun
    /\ out = NoOut
    /\ pre = EmptyStore
    /\ runs = 0
    /\ file = NotFixed
    /\ done_runs = <<>>

LoadInit ==
    /\ db \in InitStores
    /\ tx = db
    /\ run = IdleRun
    /\ out = NoOut
    /\ pre = db
    /\ runs = 0
    /\ file = NotFixed
    /\ done_runs = <<>>

LoadNext ==
    \/ StartIpeds
    \/ Preload
    \/ OpenFile
    \/ ReadRow
    \/ EndOfFile
    \/ FlushLocation
    \/ FlushIpeds
    \/ StartScorecard
    \/ ScReadRow
    \/ ScEndOfFile
    \/ ScInsert
    \/ Commit
    \/ Except
    \/ Finally

Next == LoadNext

Init == LoadInit /\ CleanIdle /\ MapIdle /\ BatchIdle /\ QueryIdle

Spec == Init /\ [][Next]_vars

InitBatch == BatchInit /\ CleanIdle /\ MapIdle /\ LoadIdle /\ QueryIdle

SpecBatch == InitBatch /\ [][BatchNext]_vars

(* Inputs of a behaviour that loads one file twice *)
MaxFileRows == 2

FixedIpedsRows ==
    {[c \in {S_UNITID, S_ADDR} |-> IF c = S_UNITID THEN u ELSE a] :
        u \in {<<"1">>, <<" ", "2">>, <<"4">>}, a \in {None, <<"A">>, <<"B", " ">>}}

RECURSIVE FilesUpTo(_, _)
FilesUpTo(rows, n) ==
    IF n = 0 THEN {<<>>}
    ELSE LET shorter == FilesUpTo(rows, n - 1)
         IN  shorter \cup {f \o <<r>> : f \in shorter, r \in rows}

FixedFiles ==
    {FileRecord(TRUE, "load_ipeds", ok, h, rows) :
        ok \in BOOLEAN,
        h \in {{S_UNITID, S_ADDR, S_CBSA, S_C21 \o S_BASIC},
               {S_UNITID, S_ADDR, S_C15 \o S_BASIC}},
        rows \in FilesUpTo(FixedIpedsRows, MaxFileRows)}
    \cup
    {FileRecord(TRUE, "load_scorecard", ok, {}, rows) :
        ok \in BOOLEAN, rows \in FilesUpTo(ScorecardRows, MaxFileRows)}

TwiceInit ==
    /\ db \in InitStores
    /\ tx = db
    /\ run = IdleRun
    /\ out = NoOut
    /\ pre = db
    /\ runs = 0
    /\ file \in FixedFiles
    /\ done_runs = <<>>

InitTwice == TwiceInit /\ CleanIdle /\ MapIdle /\ BatchIdle /\ QueryIdle

SpecTwice == InitTwice /\ [][Next]_vars

InitMap == MapInit /\ CleanIdle /\ BatchIdle /\ LoadIdle /\ QueryIdle

SpecMap == InitMap /\ [][MapNext]_vars

InitClean == CleanInit /\ MapIdle /\ BatchIdle /\ LoadIdle /\ QueryIdle

SpecClean == InitClean /\ [][CleanNext]_vars

----------------------------------------------------------------------------
(* The claims                                                              *)

\* C1: in every loader, clean_data maps "", "-999", "-2", "NULL", None and
\* "PrivacySuppressed" to None and every other string to its stripped form
\* (the sentinel test read as applying to the stripped text).
CleanSpecified(value) ==
    IF value = None \/ strip(value) \in Sentinels THEN None ELSE strip(value)

C1_CleanAsSpecified ==
    \A l \in Loaders : cl_out[l] # Pending => cl_out[l] = CleanSpecified(cl_in)

\* an address that is neither missing, NULL nor the empty string
Present(addr) == addr \notin {NoRow, None, <<>>}

RunEnded == run.pc \in {"finally", "done"}

\* C2: when a store operation of a run fails, also on the last batch after
\* earlier batches and the address updates were sent, nothing the run wrote is
\* visible after it (rolled back, never committed) and the operator is shown
\* the store exception's message.
C2_StoreFailureRollsBack ==
    (RunEnded /\ out.store_exc # "none") =>
        /\ db = pre
        /\ out.outcome = "rolled_back"
        /\ out.reported = out.store_exc

C2_Witness ==
    /\ run.pc = "done"
    /\ run.loader = "load_ipeds"
    /\ out.store_exc # "none"
    /\ run.addr_updates # <<>>
    /\ Len(run.ipeds_data) = MaxRows
    /\ Len(out.batches) = Len(batch_insert_ipeds(run.ipeds_data, batch_size))
    /\ Len(out.batches) >= 2
    /\ db = pre

\* C3: load_ipeds accepts a row iff its UNITID is non-empty, numeric and in
\* the preloaded set; every other row is rejected and adds exactly one to the
\* skipped counter, so each row read is either accepted or counted as skipped.
C3_GuardCountsEveryRow ==
    run.loader = "load_ipeds" =>
        /\ run.total_rows = run.skipped_records + Len(run.ipeds_data)
        /\ \A k \in 1..Len(run.ipeds_data) :
               /\ IsIntText(run.ipeds_data[k][2])
               /\ IntOf(run.ipeds_data[k][2]) \in run.existing_unitids

RECURSIVE Concat(_)
Concat(seqs) == IF seqs = <<>> THEN <<>> ELSE Head(seqs) \o Concat(Tail(seqs))

CeilDiv(n, b) == (n + b - 1) \div b

\* C4: for n accepted rows and batch size b >= 1, batch_insert_ipeds issues
\* ceil(n/b) batch writes, all of b rows except a last one holding the
\* remainder, that concatenate to the accepted rows in order; after the commit
\* exactly n rows are visible.
C4_BatchesCoverRowsInOrder ==
    bt.pc = "committed" =>
        LET n == Len(bt.data)
            b == bt.batch_size
            w == Len(bt.sent)
        IN  /\ w = CeilDiv(n, b)
            /\ \A j \in 1..(w - 1) : Len(bt.sent[j]) = b
            /\ w > 0 => Len(bt.sent[w]) = n - b * (w - 1)
            /\ w > 0 => Len(bt.sent[w]) \in 1..b
            /\ Concat(bt.sent) = bt.data
            /\ RowCount(bt.db) = n

C4_Witness ==
    /\ bt.pc = "committed"
    /\ Len(bt.data) = 10
    /\ bt.batch_size = 3
    /\ [j \in 1..Len(bt.sent) |-> Len(bt.sent[j])] = <<3, 3, 3, 1>>
    /\ RowCount(bt.db) = 10

\* the first address that addr_updates holds for a unit, or None
RECURSIVE FirstUpdate(_, _)
FirstUpdate(addr_updates, unitid) ==
    IF addr_updates = <<>> THEN None
    ELSE IF IntOf(Head(addr_updates)[1]) = unitid THEN Head(addr_updates)[2]
    ELSE FirstUpdate(Tail(addr_updates), unitid)

\* C5: across load runs a non-empty Location address is never changed, in
\* the committed store or by the address upsert inside a transaction; the
\* upsert writes the new address exactly where no Location row exists or the
\* stored address is NULL or the empty string.
C5_NonEmptyAddressKept ==
    [][/\ \A u \in UnitIds :
              Present(db.Location[u]) => db'.Location[u] = db.Location[u]
       /\ (run.pc = "flush_location" /\ run'.pc = "flush_ipeds") =>
              \A u \in UnitIds :
                  tx'.Location[u] =
                      IF Present(tx.Location[u])
                         \/ FirstUpdate(run.addr_updates, u) = None
                      THEN tx.Location[u]
                      ELSE FirstUpdate(run.addr_updates, u)]_vars

C5_Witness ==
    /\ run.pc = "flush_ipeds"
    /\ pre.Location[1] = <<"Y">>
    /\ tx.Location[1] = <<"Y">>
    /\ FirstUpdate(run.addr_updates, 1) = <<"A">>

LocationRows(store) == Cardinality({u \in UnitIds : store.Location[u] # NoRow})

\* C6: loading the same file twice leaves, after the second run, the row
\* count of every table written with ON CONFLICT DO NOTHING as after the first
\* run, and every address that was non-empty after the first run unchanged.
C6_SecondLoadChangesNothing ==
    (Len(done_runs) = 2 /\ done_runs[1].outcome = "committed") =>
        LET first == done_runs[1].db
            second == done_runs[2].db
        IN  /\ file.loader = "load_scorecard" =>
                /\ Cardinality(second.Institutions) = Cardinality(first.Institutions)
                /\ LocationRows(second) = LocationRows(first)
                /\ RowCount(second.Financial_Data) = RowCount(first.Financial_Data)
                /\ RowCount(second.Admissions_Data) = RowCount(first.Admissions_Data)
            /\ \A u \in UnitIds :
                   Present(first.Location[u]) =>
                       second.Location[u] = first.Location[u]

C6_Witness ==
    /\ Len(done_runs) = 2
    /\ done_runs[1].outcome = "committed"
    /\ done_runs[2].outcome = "committed"
    /\ file.loader = "load_scorecard"
    /\ Len(file.rows) = 2
    /\ RowCount(done_runs[2].db.Financial_Data) = 2
    /\ RowCount(pre.Financial_Data) = 2
    /\ \E u \in UnitIds : Present(done_runs[1].db.Location[u])

\* The vendor's convention: C and the two-digit form of the preceding year.
TwoDigits(n) == <<DigitChar(n \div 10), DigitChar(n % 10)>>

ExpectedPrefix(year) == S_C \o TwoDigits((year - 1) % 100)

\* C7: for every year the expected prefix computed by map_columns_by_year is
\* C followed by the two-digit form of the preceding year, years ending in
\* 00 through 10 included.
C7_TargetPrefixTwoDigits ==
    mc_result.called => mc_result.target = ExpectedPrefix(mc_year)

\* C8: with exactly one prefix generation in the header, the expected one,
\* map_columns_by_year does not raise and maps each of the six schema fields
\* to the expected-prefix column when the header has it and to None otherwise.
\* Checked for the expected prefix in the vendor's two-digit form and as
\* the function computes it.
C8_ExpectedGenerationMapped ==
    \A e \in {ExpectedPrefix(mc_year), target_prefix(mc_year)} :
        (mc_result.called /\ year_prefixes(mc_columns) = {e}) =>
            /\ ~mc_result.raised
            /\ \A f \in SchemaFields :
                   mc_result.mapping[f] =
                       IF e \o Suffix(f) \in mc_columns
                       THEN e \o Suffix(f) ELSE None

C8_Witness ==
    /\ mc_result.called
    /\ year_prefixes(mc_columns) = {ExpectedPrefix(mc_year)}
    /\ \E f \in SchemaFields : mc_result.mapping[f] # None
    /\ \E f \in SchemaFields : mc_result.mapping[f] = None

\* C9: when the header has prefix generations but not the expected one,
\* map_columns_by_year does not raise, warns, and maps with a prefix found in
\* the header, so every column it names is a header column.
C9_FallbackToFoundPrefix ==
    (/\ mc_result.called
     /\ year_prefixes(mc_columns) # {}
     /\ target_prefix(mc_year) \notin year_prefixes(mc_columns)) =>
        /\ ~mc_result.raised
        /\ mc_result.warned
        /\ mc_result.prefix \in year_prefixes(mc_columns)
        /\ \A f \in SchemaFields :
               \/ mc_result.mapping[f] = None
               \/ /\ mc_result.mapping[f] \in mc_columns
                  /\ mc_result.mapping[f] = mc_result.prefix \o Suffix(f)

C9_Witness ==
    /\ mc_result.called
    /\ mc_year = 2022
    /\ year_prefixes(mc_columns) = {S_C15, S_C04}
    /\ mc_result.warned
    /\ \E f \in SchemaFields : mc_result.mapping[f] # None

\* C10: when no header column carries a vendor prefix, map_columns_by_year
\* raises ValueError instead of returning a mapping, and the run that called
\* it reads no data row and writes nothing to the store.
C10_NoPrefixAbortsBeforeRows ==
    (run.map_called /\ year_prefixes(run.header) = {}) =>
        /\ run.pc \in {"except", "finally", "done"}
        /\ run.exc = ValueError("No valid year prefix found in columns.")
        /\ run.total_rows = 0
        /\ ~out.wrote
        /\ tx = pre
        /\ db = pre
        /\ out.outcome # "committed"

C10_Witness ==
    /\ run.pc = "done"
    /\ run.map_called
    /\ year_prefixes(run.header) = {}
    /\ out.reported = "No valid year prefix found in columns."

----------------------------------------------------------------------------
(* Runs under fair scheduling: a started run is a sequential program that  *)
(* keeps executing, so its next step is eventually taken                   *)

\* a load_ipeds row whose identifier int() refuses
NonNumericRow == [c \in {S_UNITID, S_ADDR} |->
                     IF c = S_UNITID THEN <<"x">> ELSE <<"A">>]

LiveFiles ==
    FixedFiles \cup
    {FileRecord(TRUE, "load_ipeds", TRUE,
                {S_UNITID, S_ADDR, S_CBSA, S_C21 \o S_BASIC}, rows) :
        rows \in FilesUpTo({NonNumericRow} \cup
                           {r \in FixedIpedsRows : r[S_ADDR] = None},
                           MaxFileRows)}

InitLive ==
    /\ db \in InitStores
    /\ tx = db
    /\ run = IdleRun
    /\ out = NoOut
    /\ pre = db
    /\ runs = 0
    /\ file \in LiveFiles
    /\ done_runs = <<>>
    /\ CleanIdle /\ MapIdle /\ BatchIdle /\ QueryIdle

SpecLive == InitLive /\ [][Next]_vars /\ WF_vars(Next)

\* C11: every started load_ipeds run, committed or rolled back, eventually
\* prints the terminal report (rows read, skipped, prepared, absent address)
\* before the run ends.
C11_ReportEventuallyEmitted ==
    \A n \in 1..MaxRuns :
        (runs = n /\ run.loader = "load_ipeds" /\ run.pc = "preload")
            ~> (runs = n /\ out.summary # <<>>)

\* C12: a row-level problem never ends a load_ipeds run: once rows are being
\* read, the run is rolled back only by a failure of the store; a row with a
\* non-numeric identifier is counted as skipped and the run goes on.
C12_RowProblemNeverRollsBack ==
    (run.loader = "load_ipeds" /\ run.total_rows > 0 /\ run.pc = "except")
        => run.exc.type = "StoreError"

\* C13: a row written to a yearly table whose key is already present is
\* ignored: no table ever holds two rows of one key and no run fails with a
\* duplicate-key error, in load_ipeds (IPEDS_Directory) as in load_scorecard.
C13_DuplicateKeyIgnored ==
    /\ out.store_exc # MsgDuplicateKey
    /\ run.exc.msg # MsgDuplicateKey
    /\ \A k \in YearlyKeys :
           /\ tx.IPEDS_Directory[k] <= 1
           /\ tx.Financial_Data[k] <= 1
           /\ tx.Admissions_Data[k] <= 1

\* every yearly record of the store has the unitid of an Institutions row
Referenced(store) ==
    \A k \in YearlyKeys :
        (store.IPEDS_Directory[k] > 0 \/ store.Financial_Data[k] > 0
            \/ store.Admissions_Data[k] > 0) => k[2] \in store.Institutions

\* the errors a row without a usable institution identifier raises
UnitIdFailures ==
    {MsgNotNull, MsgBadInteger, MsgForeignKey,
     "invalid literal for int() with base 10"}

\* C14: after any runs of load_scorecard and load_ipeds every yearly record
\* visible in the store references a visible Institutions row, and a source
\* row that cannot reference one is left out of the write: it never fails
\* the run.
C14_YearlyRecordsReferenceInstitutions ==
    /\ Referenced(db)
    /\ run.exc.msg \notin UnitIdFailures

\* C15: in a load_ipeds run every value of an accepted row is clean_data's
\* output for its column, UNITID included: the tuple queued for
\* IPEDS_Directory and the address update queued for Location carry the
\* cleaned identifier and the cleaned address of the row just read.
C15_EveryValueNormalized ==
    [][(/\ file.fixed
        /\ run'.loader = "load_ipeds"
        /\ Len(run'.ipeds_data) = Len(run.ipeds_data) + 1)
       => LET row == DictRow(file.rows[run'.total_rows], run.header)
              cleaned == clean_data("load_ipeds", row, run.header)
              row_data == run'.ipeds_data[Len(run'.ipeds_data)]
          IN  /\ row_data[2] = cleaned[S_UNITID]
              /\ Len(run'.addr_updates) = Len(run.addr_updates) + 1
                    => run'.addr_updates[Len(run'.addr_updates)] =
                           <<cleaned[S_UNITID], cleaned[S_ADDR]>>]_vars

\* C16: during a load run the accepted rows held in memory, waiting to be
\* written, are never more than one batch.
C16_HeldRowsWithinBatch ==
    /\ Len(run.ipeds_data) <= batch_size
    /\ Len(run.addr_updates) <= batch_size

\* the vendor's prefix pattern: the letter C followed by two decimal digits
IsVendorPrefix(p) ==
    Len(p) = 3 /\ p[1] = "C" /\ p[2] \in Digits /\ p[3] \in Digits

\* C17: every candidate prefix map_columns_by_year collects from the header,
\* and every prefix it resolves to by fallback, is the letter C followed by
\* two digits; a column shorter than three characters gives no candidate.
C17_CandidatesAreVendorPrefixes ==
    mc_result.called =>
        /\ \A p \in year_prefixes(mc_columns) : IsVendorPrefix(p)
        /\ (~mc_result.raised /\ mc_result.warned)
               => IsVendorPrefix(mc_result.prefix)

\* C18: when the reading phase of a load_ipeds run ends, rows read = rows
\* skipped + rows prepared, rows prepared = rows with an absent address +
\* address updates queued, and every queued address update is for an accepted
\* identifier and carries a non-empty address.
C18_CountersConsistent ==
    (run.loader = "load_ipeds" /\ out.summary # <<>>) =>
        LET s == out.summary[1]
        IN  /\ s.total_rows = s.skipped_records + s.prepared
            /\ s.prepared = s.null_addr_count + s.addr_updates
            /\ s.prepared = Len(run.ipeds_data)
            /\ s.addr_updates = Len(run.addr_updates)
            /\ \A k \in 1..Len(run.addr_updates) :
                   /\ IntOf(run.addr_updates[k][1]) \in run.existing_unitids
                   /\ Present(run.addr_updates[k][2])
                   /\ \E j \in 1..Len(run.ipeds_data) :
                          run.ipeds_data[j][2] = run.addr_updates[k][1]

\* the report of a file with a skipped row, an accepted row without an
\* address and an accepted row with one
C18_Witness ==
    /\ run.loader = "load_ipeds"
    /\ out.summary # <<>>
    /\ out.summary[1].total_rows = MaxRows
    /\ out.summary[1].skipped_records >= 1
    /\ out.summary[1].null_addr_count >= 1
    /\ out.summary[1].addr_updates >= 1

\* C19: a loader invocation that has ended, by commit, by rollback or by a
\* filename that does not match the required pattern, has closed the cursor
\* and the connection it opened.
C19_ConnectionClosedAtEnd ==
    run.pc \in {"done", "crashed"} => ~run.conn_open

\* C20: two calls of map_columns_by_year with the same year and the same
\* header set give the same outcome and the same mapping, also when the
\* expected prefix is absent and the header holds several other generations.
C20_SameArgumentsSameMapping ==
    (mc_result.called /\ mc_again.called) =>
        /\ mc_again.raised = mc_result.raised
        /\ mc_again.mapping = mc_result.mapping

----------------------------------------------------------------------------
(* The dashboard's calls of query_data                                     *)

InitQuery == QueryIdle /\ CleanIdle /\ MapIdle /\ BatchIdle /\ LoadIdle

SpecQuery == InitQuery /\ [][QueryNext]_vars

\* C21: query_data never raises: a call that fails, a failure to open the
\* connection included, shows the error and returns None; a call that
\* succeeds returns the result; every connection a call opened is closed
\* when the call ends.
C21_QueryNeverRaises ==
    /\ qd.pc # "raised"
    /\ qd.pc = "returned" =>
           /\ qd.result = (IF qd.shown = "none" THEN "df" ELSE "None")
           /\ qd.connection = "closed"
           /\ qd.opened = qd.closed

====
